---------------------------- MODULE Spec2Model ----------------------------
(***************************************************************************)
(* A model of the evio reactor (serve, loopRun, loopAccept, loopOpened,    *)
(* loopWrite, loopAction, loopRead, loopCloseConn, eventHandler) together  *)
(* with the kernel objects it drives: the listener backlog, the sockets of *)
(* the accepted connections and the shutdown condition variable.           *)
(*                                                                         *)
(* Threads: the main thread (serve and its deferred function), one thread  *)
(* per Loop (loopRun), and the clients (the environment).  A Loop thread   *)
(* runs one event handler at a time; a handler that touches only the state *)
(* owned by its Loop is one step, loopAccept is split at every access to   *)
(* state shared with the other Loops (the atomic counters, the backlog).   *)
(***************************************************************************)
EXTENDS Integers, Sequences, FiniteSets, TLC

\* ------------------------------------------------------------------ bounds
MaxLoops == 2       \* largest number of Loops a run is started with
MaxConns == 2       \* clients that connect in a run
MaxBytes == 1       \* bytes a client sends on its connection
MaxAcceptErrs == 1  \* failing accepts (EMFILE) and failing waits in a run
FairConns == 1      \* clients in the runs checked for termination
EchoConns == 2      \* clients of the echo server
EchoBytes == 3      \* bytes each client of the echo server sends
BalConns == 3       \* clients in the runs of the load-balancing policies
ReuseConns == 2     \* clients in the runs that keep track of the input buffers
ReuseBytes == 2     \* bytes each of them sends
TickConns == 1      \* clients in the runs with a ticker
MaxTicks == 3       \* Tick events the ticker raises in a run
WriteConns == 1     \* clients in the runs whose callbacks call Connection.Write
WriteBytes == 2     \* bytes each of them sends
MaxWrites == 3      \* Connection.Write calls in a run
MaxWch == 2         \* capacity of a loop's pending-writes channel in a run
OrderWrites == 2    \* Connection.Write calls in the runs of the echo server
StaleConns == 2     \* clients in the runs that reuse an fd number
StaleWrites == 1    \* Connection.Write calls in those runs
MaxAccepted == 4    \* largest value of the accept counter in a run

AllLoops == 0 .. (MaxLoops - 1)
\* the clients of the largest run
Largest(S) == CHOOSE x \in S : \A y \in S : y <= x
NumClients == Largest({MaxConns, FairConns, EchoConns, BalConns, ReuseConns,
                       TickConns, WriteConns, StaleConns})
ConnIds  == 1 .. NumClients
Fds      == 1 .. NumClients
NoConn   == 0

\* ------------------------------------------------------------ program values
Actions   == {"None", "Detach", "Close", "Shutdown"}
Balances  == {"Random", "RoundRobin", "LeastConnections"}
\* what a callback may hand back as bytes to send
OutChoices == {<<>>, <<11, 12>>}
\* the CPUs of the machine, for NumLoops < 0
NumCPU == MaxLoops

VARIABLES
    \* configuration (Events), fixed by Init
    numLoops,    \* serve: numLoops
    balance,     \* server.balance
    echo,        \* TRUE: Data returns its input with action None, Opened a greeting
    maxConns,    \* clients that connect in this run
    maxBytes,    \* bytes each client sends in this run
    \* main thread
    mainpc,      \* position of the main thread in serve and its deferred function
    serveRet,    \* what serve returned: "pending", "nil" or "err"
    sigCount,    \* number of cond.Signal calls so far
    sigLost,     \* number of those made while nobody waited
    wg,          \* server.wg counter
    sweepL,      \* index of the Loop the deferred sweep is at
    \* server and loops
    accepted,    \* server.accepted
    lpc,         \* position of each Loop thread
    waitErr,     \* what Poll.Wait returned on each Loop
    ltags,       \* user-event tags pending on each Loop's Poller
    accN,        \* loopAccept: n (LeastConnections)
    accI,        \* loopAccept: index of the range loop over s.loops
    fdconns,     \* loop.fdconns: fd -> connection (NoConn: no entry)
    count,       \* loop.count
    interest,    \* interest registered per fd with each Loop's Poller
    nErrs,       \* failing accepts and waits so far
    \* connections
    conn,        \* the conn objects and the state of their sockets
    nRead,       \* bytes of the client's stream read from each connection's fd
    \* history
    nOpened,     \* Opened callbacks per connection
    nClosed,     \* Closed callbacks per connection
    nFdClosed,   \* syscall.Close calls per connection's fd
    closedErr,   \* the error passed to Closed
    closedBy,    \* the code path that closed the connection
    nEvents,     \* readiness events delivered per connection (1: one or more)
    early,       \* Data callbacks and writes of c.out made before Opened
    owed,        \* bytes returned together with the Close action, not yet written
    owedAll,     \* bytes returned together with the Close action
    rd,          \* bytes read from the fd (echo runs)
    wr,          \* bytes written to the fd (echo runs)
    greet,       \* bytes returned by Opened (echo runs)
    accOrder,    \* owning Loop of each accepted connection, in accept order
    \* the Serving callback
    servAct,     \* the action Serving returned ("none": not called yet)
    nServing,    \* Serving callbacks so far
    \* the memory of the input buffers
    memOn,       \* TRUE: the run keeps track of the memory handed to Data
    reuseOpt,    \* Options.ReuseInputBuffer as returned by Opened in this run
    creuse,      \* conn.reuse
    packet,      \* loop.packet: the bytes at the start of the scratch buffer
    nData,       \* Data callbacks per loop (2: two or more)
    firstSl,     \* the slice passed to a loop's first Data call, kept by the caller
    lastSl,      \* the slice passed to a loop's latest Data call
    \* the ticker
    tickOn,      \* events.Tick is set
    tpc,         \* position of the ticker thread in loopTicker
    nFire,       \* FireEvent(EventTick) calls that succeeded
    nTick,       \* Tick callbacks
    nPub,        \* delays received from s.tch
    nSlept,      \* time.Sleep calls that have returned
    shutAt,      \* the number of the Tick callback that returned Shutdown (0: none)
    tickBy,      \* the loops that have invoked Tick
    \* Connection.Write
    maxWrites,   \* Connection.Write calls the callbacks of this run make
    nWrites,     \* Connection.Write calls so far
    wch,         \* loop.wch: the pending writeEvents of each loop, oldest first
    cur,         \* the connection whose Data callback a loop is running, or ran last
    ahead,       \* per connection, the pairs <<p, w>>: byte p was pending in c.out
                 \* or in l.wch when the Write call of first byte w was made
    stale,       \* the connection's fd was widened by the Write event of an
                 \* earlier, closed connection that had the same fd number
    curIn,       \* loopRead: in, the slice a loop passed to its latest Data call
    otherOn,     \* TRUE: a goroutine that is no loop calls Connection.Write
    xsend,       \* willWrite in that goroutine: its writeEvent and where it is at
                 \* ("idle": not in willWrite, "send": about to send on l.wch,
                 \* "parked": waiting in the send, "fire": about to FireEvent)
    lsend,       \* willWrite on a loop's thread: the writeEvent it is about to send
    \* Options.TCPKeepAlive
    keepAlive,   \* TRUE: Opened returns TCPKeepAlive > 0 and the listener is TCP
    kaFail       \* internal.SetKeepAlive failed in the connection's loopOpened

cfgVars  == <<numLoops, balance, echo, maxConns, maxBytes>>
mainVars == <<mainpc, serveRet, sigCount, sigLost, wg, sweepL>>
loopVars == <<accepted, lpc, waitErr, ltags, accN, accI, fdconns, count, interest, nErrs>>
connVars == <<conn, nRead>>
histVars == <<nOpened, nClosed, nFdClosed, closedErr, closedBy, nEvents, early, owed,
              owedAll, rd, wr, greet, accOrder>>
servVars == <<servAct, nServing>>
memVars  == <<memOn, reuseOpt, creuse, packet, nData, firstSl, lastSl>>
tickVars == <<tickOn, tpc, nFire, nTick, nPub, nSlept, shutAt, tickBy>>
wchVars  == <<maxWrites, nWrites, wch, cur, ahead, stale, curIn, otherOn, xsend, lsend>>
optVars  == <<keepAlive, kaFail>>
extVars  == <<servVars, memVars, tickVars, wchVars, optVars>>
\* what the Serving callback, a handler of the memory, a step of the ticker
\* leaves alone
servRest == <<memVars, tickVars, wchVars, optVars>>
memRest  == <<servVars, tickVars, wchVars, optVars>>
tickRest == <<servVars, memVars, wchVars, optVars>>
wchRest  == <<servVars, memVars, tickVars, optVars>>
vars == <<cfgVars, mainVars, loopVars, connVars, histVars, extVars>>

Loops == 0 .. (numLoops - 1)

\* ------------------------------------------------------------------ helpers
Min(S) == CHOOSE x \in S : \A y \in S : x <= y

\* serve: the number of loops for events.NumLoops = n
NumLoopsOf(n) == IF n <= 0 THEN (IF n = 0 THEN 1 ELSE NumCPU) ELSE n

\* a conn object made with the opened flag already set
NewConnOpened(fd, l) ==
    [st |-> "live", fd |-> fd, loop |-> l, opened |-> TRUE, out |-> <<>>,
     action |-> "None"]

\* the conn object made by loopAccept
NewConn(fd, l) ==
    [st |-> "live", fd |-> fd, loop |-> l, opened |-> FALSE, out |-> <<>>,
     action |-> "None"]

\* the other goroutine is not in willWrite
NoEvent == [l |-> 0, c |-> NoConn, data |-> <<>>, at |-> "idle"]

\* no writeEvent
NoWrite == [c |-> NoConn, data |-> <<>>]

NoConnYet == [st |-> "none", fd |-> 0, loop |-> 0, opened |-> FALSE, out |-> <<>>,
              action |-> "None"]

\* a conn object that left l.fdconns: nothing of the server refers to it any
\* more, its fd is closed; what is kept says where it was
Dropped(k) ==
    [st |-> "closed", fd |-> k.fd, loop |-> k.loop, opened |-> k.opened, out |-> <<>>,
     action |-> "None"]

\* loopAccept returned after syscall.SetNonblock failed on the accepted fd:
\* no conn object was made, the fd was not closed and nothing refers to it
LeakedFd(fd, l) ==
    [st |-> "leaked", fd |-> fd, loop |-> l, opened |-> FALSE, out |-> <<>>,
     action |-> "None"]

\* fds open in the process
OpenFds == {conn[c].fd : c \in {d \in ConnIds : conn[d].st \in {"live", "leaked"}}}

\* the fd the kernel hands out: the lowest free one
FreshFd == Min(Fds \ OpenFds)

\* Poll.Wait after a handler returned err: where loopRun may be next. nil keeps
\* the wait going and the closing sentinel ends it. For any other error the
\* wait may end as well or go on: the sentinel is a variable of package evio
\* that the Poller's package cannot name, and nothing says what Wait does with
\* another value
WaitAfter(err) ==
    IF err = "nil" THEN {"wait"}
    ELSE IF err = "errClosing" THEN {"defer"}
    ELSE {"wait", "defer"}

\* loopCloseConn: the value returned for the action Closed returned
ClosedRet(a) == IF a = "Shutdown" THEN "errClosing" ELSE "nil"

\* a loopWrite that empties c.out whatever was written
CompactAll(out, n) == <<>>

\* loopWrite: c.out after n bytes of it were written
Compact(out, n) == IF n = Len(out) THEN <<>> ELSE SubSeq(out, n + 1, Len(out))

\* the kernel may report the fd of a connection whenever it is registered:
\* writable under write interest, readable when the client sent or hung up
FdReady(l, c) == interest[l][conn[c].fd] \in {"r", "rw"}

\* the clients that have not connected yet, or wait in the listener's queue
Pending == {c \in ConnIds : c <= maxConns /\ conn[c].st = "none"}

\* the kernel may report the listener's fd while clients are connecting
ListenerReady == Pending # {}

\* the client's stream: its bytes are 1, 2, 3, ...; bytes i+1 .. i+n of it
Stream(i, n) == [k \in 1 .. n |-> i + k]

IsPrefix(s, t) == Len(s) <= Len(t) /\ SubSeq(t, 1, Len(s)) = s

Cap2(n) == IF n >= 2 THEN 2 ELSE n

\* ------------------------------------------------------------------ initial
InitHist ==
    /\ nOpened = [c \in ConnIds |-> 0]
    /\ nClosed = [c \in ConnIds |-> 0]
    /\ nFdClosed = [c \in ConnIds |-> 0]
    /\ closedErr = [c \in ConnIds |-> "none"]
    /\ closedBy = [c \in ConnIds |-> "none"]
    /\ nEvents = [c \in ConnIds |-> 0]
    /\ early = [c \in ConnIds |-> 0]
    /\ owed = [c \in ConnIds |-> 0]
    /\ owedAll = [c \in ConnIds |-> 0]
    /\ rd = [c \in ConnIds |-> <<>>]
    /\ wr = [c \in ConnIds |-> <<>>]
    /\ greet = [c \in ConnIds |-> <<>>]
    /\ accOrder = <<>>

\* no slice: nothing was passed to Data yet
NoSlice == [base |-> 0, len |-> 0, mem |-> <<>>, in |-> <<>>]

\* the memory before the first read; m: keep track of it, r: ReuseInputBuffer
InitMem(m, r) ==
    /\ memOn = m
    /\ reuseOpt = r
    /\ creuse = [c \in ConnIds |-> FALSE]
    /\ packet = [l \in AllLoops |-> <<>>]
    /\ nData = [l \in AllLoops |-> 0]
    /\ firstSl = [l \in AllLoops |-> NoSlice]
    /\ lastSl = [l \in AllLoops |-> NoSlice]

\* the ticker before serve starts the loops; t: events.Tick is set
InitTick(t) ==
    /\ tickOn = t
    /\ tpc = "off"
    /\ nFire = 0
    /\ nTick = 0
    /\ nPub = 0
    /\ nSlept = 0
    /\ shutAt = 0
    /\ tickBy = {}

\* the pending-writes channels as serve makes them; w: Write calls of the run
\* o: the program has a goroutine of its own that calls Connection.Write
InitWch(w, o) ==
    /\ maxWrites = w
    /\ nWrites = 0
    /\ wch = [l \in AllLoops |-> <<>>]
    /\ cur = [l \in AllLoops |-> NoConn]
    /\ ahead = [c \in ConnIds |-> {}]
    /\ stale = [c \in ConnIds |-> FALSE]
    /\ curIn = [l \in AllLoops |-> <<>>]
    /\ otherOn = o
    /\ xsend = NoEvent
    /\ lsend = [l \in AllLoops |-> NoWrite]

\* the options Opened returns in this run; k: TCPKeepAlive > 0, listener TCP
InitOpt(k) ==
    /\ keepAlive = k
    /\ kaFail = [c \in ConnIds |-> FALSE]

\* serve is entered: the server, its loops and its connections
InitBase(n, b, e, nc, nb) ==
    /\ numLoops = NumLoopsOf(n)
    /\ balance = b
    /\ echo = e
    /\ maxConns = nc
    /\ maxBytes = nb
    /\ mainpc = "serving"
    /\ serveRet = "pending"
    /\ sigCount = 0
    /\ sigLost = 0
    /\ wg = 0
    /\ sweepL = 0
    /\ accepted = 0
    /\ lpc = [l \in AllLoops |-> "off"]
    /\ waitErr = [l \in AllLoops |-> "none"]
    /\ ltags = [l \in AllLoops |-> {}]
    /\ accN = [l \in AllLoops |-> 0]
    /\ accI = [l \in AllLoops |-> 0]
    /\ fdconns = [l \in AllLoops |-> [fd \in Fds |-> NoConn]]
    /\ count = [l \in AllLoops |-> 0]
    /\ interest = [l \in AllLoops |-> [fd \in Fds |-> "none"]]
    /\ nErrs = 0
    /\ conn = [c \in ConnIds |-> NoConnYet]
    /\ nRead = [c \in ConnIds |-> 0]
    /\ InitHist
    /\ servAct = "none"
    /\ nServing = 0

\* the state when serve is entered with events.NumLoops = n, events.LoadBalance = b
InitWith(n, b, e, nc, nb) ==
    /\ InitBase(n, b, e, nc, nb)
    /\ InitMem(FALSE, FALSE)
    /\ InitTick(FALSE)
    /\ InitWch(0, FALSE)
    /\ InitOpt(FALSE)

\* ------------------------------------------------------------- main thread
\* a serve that goes on to create the loops whatever Serving returned
ServingNextAlways(a) == "create"

\* serve: where the main thread goes after Serving returned action a
ServingNext(a) == IF a = "Shutdown" THEN "done" ELSE "create"

\* serve: the Serving callback
MainServing ==
    /\ mainpc = "serving"
    /\ \E a \in {"None", "Shutdown"} :
         /\ servAct' = a
         /\ mainpc' = ServingNext(a)
         /\ IF ServingNext(a) = "done"
            THEN serveRet' = "nil"
            ELSE UNCHANGED serveRet
    /\ nServing' = nServing + 1
    /\ UNCHANGED <<sigCount, sigLost, wg, sweepL>>
    /\ UNCHANGED <<cfgVars, servRest, loopVars, connVars, histVars>>

\* loopRun of loop 0: the ticker thread is started when events.Tick is set
TickerStart(t) == IF t THEN "fire" ELSE "off"

\* serve: create the loops, wg.Add, go loopRun for each, return nil; each
\* loopRun reaches l.poll.Wait (loop 0 after it started the ticker)
MainStart ==
    /\ mainpc = "create"
    /\ mainpc' = "deferred"
    /\ wg' = numLoops
    /\ lpc' = [l \in AllLoops |-> IF l \in Loops THEN "wait" ELSE "off"]
    /\ tpc' = TickerStart(tickOn)
    /\ UNCHANGED <<serveRet, sigCount, sigLost, sweepL>>
    /\ UNCHANGED <<accepted, waitErr, ltags, accN, accI, fdconns, count, interest, nErrs>>
    /\ UNCHANGED <<tickOn, nFire, nTick, nPub, nSlept, shutAt, tickBy>>
    /\ UNCHANGED <<cfgVars, tickRest, connVars, histVars>>

\* waitForShutdown: Lock, then cond.Wait releases the lock and suspends
MainWait ==
    /\ mainpc = "deferred"
    /\ mainpc' = "condwait"
    /\ UNCHANGED <<serveRet, sigCount, sigLost, wg, sweepL>>
    /\ UNCHANGED <<cfgVars, extVars, loopVars, connVars, histVars>>

\* the deferred function: FireEvent(EventClose) on every loop
MainFire ==
    /\ mainpc = "woken"
    /\ mainpc' = "wgwait"
    /\ ltags' = [l \in AllLoops |-> IF l \in Loops THEN ltags[l] \cup {"Close"} ELSE ltags[l]]
    /\ UNCHANGED <<serveRet, sigCount, sigLost, wg, sweepL>>
    /\ UNCHANGED <<accepted, lpc, waitErr, accN, accI, fdconns, count, interest, nErrs>>
    /\ UNCHANGED <<cfgVars, extVars, connVars, histVars>>

\* the deferred function: s.wg.Wait()
MainWgWait ==
    /\ mainpc = "wgwait"
    /\ wg = 0
    /\ mainpc' = "sweep"
    /\ sweepL' = 0
    /\ UNCHANGED <<serveRet, sigCount, sigLost, wg>>
    /\ UNCHANGED <<cfgVars, extVars, loopVars, connVars, histVars>>

\* a loopCloseConn that leaves l.count as it is
CloseConnKeepCount(l, c, err, by) ==
    /\ count' = count
    /\ fdconns' = [fdconns EXCEPT ![l][conn[c].fd] = NoConn]
    /\ interest' = [interest EXCEPT ![l][conn[c].fd] = "none"]
    /\ conn' = [conn EXCEPT ![c] = Dropped(conn[c])]
    /\ nRead' = [nRead EXCEPT ![c] = 0]
    /\ nFdClosed' = [nFdClosed EXCEPT ![c] = Cap2(@ + 1)]
    /\ nClosed' = [nClosed EXCEPT ![c] = Cap2(@ + 1)]
    /\ closedErr' = [closedErr EXCEPT ![c] = err]
    /\ closedBy' = [closedBy EXCEPT ![c] = by]

\* a loopCloseConn that calls Closed with a nil error whatever err is
CloseConnNilErr(l, c, err, by) ==
    /\ count' = [count EXCEPT ![l] = @ - 1]
    /\ fdconns' = [fdconns EXCEPT ![l][conn[c].fd] = NoConn]
    /\ interest' = [interest EXCEPT ![l][conn[c].fd] = "none"]
    /\ conn' = [conn EXCEPT ![c] = Dropped(conn[c])]
    /\ nRead' = [nRead EXCEPT ![c] = 0]
    /\ nFdClosed' = [nFdClosed EXCEPT ![c] = Cap2(@ + 1)]
    /\ nClosed' = [nClosed EXCEPT ![c] = Cap2(@ + 1)]
    /\ closedErr' = [closedErr EXCEPT ![c] = "nil"]
    /\ closedBy' = [closedBy EXCEPT ![c] = by]

\* loopCloseConn(s, l, c, err): what it does to the loop and to the connection
CloseConn(l, c, err, by) ==
    /\ count' = [count EXCEPT ![l] = @ - 1]
    /\ fdconns' = [fdconns EXCEPT ![l][conn[c].fd] = NoConn]
    /\ interest' = [interest EXCEPT ![l][conn[c].fd] = "none"]
    /\ conn' = [conn EXCEPT ![c] = Dropped(conn[c])]
    /\ nRead' = [nRead EXCEPT ![c] = 0]
    /\ nFdClosed' = [nFdClosed EXCEPT ![c] = Cap2(@ + 1)]
    /\ nClosed' = [nClosed EXCEPT ![c] = Cap2(@ + 1)]
    /\ closedErr' = [closedErr EXCEPT ![c] = err]
    /\ closedBy' = [closedBy EXCEPT ![c] = by]

\* the deferred function: loopCloseConn(s, l, c, nil) for a connection of l.fdconns
MainSweepConn(c) ==
    /\ mainpc = "sweep"
    /\ sweepL < numLoops
    /\ conn[c].fd \in Fds
    /\ fdconns[sweepL][conn[c].fd] = c
    /\ CloseConn(sweepL, c, "nil", "sweep")
    /\ UNCHANGED <<mainVars, cfgVars, extVars>>
    /\ UNCHANGED <<accepted, lpc, waitErr, ltags, accN, accI, nErrs>>
    /\ UNCHANGED <<nOpened, nEvents, early, owed, rd, wr, greet, accOrder, owedAll>>

\* a sweep that leaves a loop while connections remain in its fdconns
MainSweepNextEarly ==
    /\ mainpc = "sweep"
    /\ sweepL < numLoops
    /\ sweepL' = sweepL + 1
    /\ UNCHANGED <<mainpc, serveRet, sigCount, sigLost, wg>>
    /\ UNCHANGED <<cfgVars, extVars, loopVars, connVars, histVars>>

\* the deferred function: l.fdconns is exhausted, l.poll.Close(), next loop
MainSweepNext ==
    /\ mainpc = "sweep"
    /\ sweepL < numLoops
    /\ \A fd \in Fds : fdconns[sweepL][fd] = NoConn
    /\ sweepL' = sweepL + 1
    /\ UNCHANGED <<mainpc, serveRet, sigCount, sigLost, wg>>
    /\ UNCHANGED <<cfgVars, extVars, loopVars, connVars, histVars>>

\* serve returns to its caller
MainDone ==
    /\ mainpc = "sweep"
    /\ sweepL = numLoops
    /\ mainpc' = "done"
    /\ serveRet' = "nil"
    /\ UNCHANGED <<sigCount, sigLost, wg, sweepL>>
    /\ UNCHANGED <<cfgVars, extVars, loopVars, connVars, histVars>>

\* ------------------------------------------------------- loop thread: exit
\* a loopRun in which only the first loop to return signals the condition
LoopSignalFirstOnly(l) ==
    /\ lpc[l] = "defer"
    /\ lpc' = [lpc EXCEPT ![l] = "sigdone"]
    /\ IF sigCount = 0
       THEN /\ sigCount' = 1
            /\ IF mainpc = "condwait"
               THEN mainpc' = "woken" /\ UNCHANGED sigLost
               ELSE sigLost' = sigLost + 1 /\ UNCHANGED mainpc
       ELSE UNCHANGED <<sigCount, sigLost, mainpc>>
    /\ UNCHANGED <<serveRet, wg, sweepL>>
    /\ UNCHANGED <<accepted, waitErr, ltags, accN, accI, fdconns, count, interest, nErrs>>
    /\ UNCHANGED <<cfgVars, extVars, connVars, histVars>>

\* loopRun's deferred function: s.signalShutdown()
LoopSignal(l) ==
    /\ lpc[l] = "defer"
    /\ lpc' = [lpc EXCEPT ![l] = "sigdone"]
    /\ sigCount' = sigCount + 1
    /\ IF mainpc = "condwait"
       THEN mainpc' = "woken" /\ UNCHANGED sigLost
       ELSE sigLost' = sigLost + 1 /\ UNCHANGED mainpc
    /\ UNCHANGED <<serveRet, wg, sweepL>>
    /\ UNCHANGED <<accepted, waitErr, ltags, accN, accI, fdconns, count, interest, nErrs>>
    /\ UNCHANGED <<cfgVars, extVars, connVars, histVars>>

\* loopRun's deferred function: s.wg.Done()
LoopWgDone(l) ==
    /\ lpc[l] = "sigdone"
    /\ lpc' = [lpc EXCEPT ![l] = "exited"]
    /\ wg' = wg - 1
    /\ UNCHANGED <<mainpc, serveRet, sigCount, sigLost, sweepL>>
    /\ UNCHANGED <<accepted, waitErr, ltags, accN, accI, fdconns, count, interest, nErrs>>
    /\ UNCHANGED <<cfgVars, extVars, connVars, histVars>>

\* Poll.Wait returns err to loopRun
LeaveWait(l, err) ==
    \E to \in WaitAfter(err) :
       /\ lpc' = [lpc EXCEPT ![l] = to]
       /\ waitErr' = [waitErr EXCEPT ![l] = IF to = "defer" THEN err ELSE @]

\* eventHandler.OnEvent(EventClose)
OnEventClose(l) ==
    /\ lpc[l] = "wait"
    /\ "Close" \in ltags[l]
    /\ ltags' = [ltags EXCEPT ![l] = @ \ {"Close"}]
    /\ LeaveWait(l, "errClosing")
    /\ UNCHANGED <<accepted, accN, accI, fdconns, count, interest, nErrs>>
    /\ UNCHANGED <<cfgVars, extVars, mainVars, connVars, histVars>>

\* Poll.Wait: the kernel wait itself fails
PollFail(l) ==
    /\ lpc[l] = "wait"
    /\ nErrs < MaxAcceptErrs
    /\ nErrs' = nErrs + 1
    /\ lpc' = [lpc EXCEPT ![l] = "defer"]
    /\ waitErr' = [waitErr EXCEPT ![l] = "fatal"]
    /\ UNCHANGED <<accepted, ltags, accN, accI, fdconns, count, interest>>
    /\ UNCHANGED <<cfgVars, extVars, mainVars, connVars, histVars>>

\* ------------------------------------------------------------------ ticker
\* serve's deferred function has closed the Poller of loop l (l.poll.Close())
PollClosed(l) == mainpc \in {"sweep", "done"} /\ sweepL > l

\* loopTicker: l.poll.FireEvent(EventTick) on loop 0 succeeds
TickerFire ==
    /\ tpc = "fire"
    /\ ~PollClosed(0)
    /\ nFire < MaxTicks
    /\ ltags' = [ltags EXCEPT ![0] = @ \cup {"Tick"}]
    /\ nFire' = nFire + 1
    /\ tpc' = "recv"
    /\ UNCHANGED <<accepted, lpc, waitErr, accN, accI, fdconns, count, interest, nErrs>>
    /\ UNCHANGED <<tickOn, nTick, nPub, nSlept, shutAt, tickBy>>
    /\ UNCHANGED <<cfgVars, tickRest, mainVars, connVars, histVars>>

\* loopTicker: FireEvent returns an error (the Poller is closed), break
TickerFireFail ==
    /\ tpc = "fire"
    /\ PollClosed(0)
    /\ tpc' = "exited"
    /\ UNCHANGED <<tickOn, nFire, nTick, nPub, nSlept, shutAt, tickBy>>
    /\ UNCHANGED <<cfgVars, tickRest, mainVars, loopVars, connVars, histVars>>

\* what the Tick callback returns as action
TickResults == {"None", "Shutdown"}

\* an OnEvent that publishes the delay whatever action Tick returned
TickNextAlwaysSend(a) == "tchSend"

\* eventHandler.OnEvent(EventTick): where the loop goes when Tick returned a
TickNext(a) == IF a = "Shutdown" THEN "defer" ELSE "tchSend"

\* eventHandler.OnEvent(EventTick): the Tick callback, up to the send on s.tch
OnEventTick(l) ==
    /\ lpc[l] = "wait"
    /\ "Tick" \in ltags[l]
    /\ ltags' = [ltags EXCEPT ![l] = @ \ {"Tick"}]
    /\ nTick' = nTick + 1
    /\ tickBy' = tickBy \cup {l}
    /\ \E a \in TickResults :
         /\ shutAt' = IF a = "Shutdown" THEN nTick + 1 ELSE shutAt
         /\ IF TickNext(a) = "defer"
            THEN LeaveWait(l, "errClosing")
            ELSE lpc' = [lpc EXCEPT ![l] = "tchSend"] /\ UNCHANGED waitErr
    /\ UNCHANGED <<accepted, accN, accI, fdconns, count, interest, nErrs>>
    /\ UNCHANGED <<tickOn, tpc, nFire, nPub, nSlept>>
    /\ UNCHANGED <<cfgVars, tickRest, mainVars, connVars, histVars>>

\* h.s.tch <- delay in OnEvent meets <-s.tch in loopTicker: the handler returns
\* nil, the ticker goes to sleep
TickerRecv ==
    /\ tpc = "recv"
    /\ \E l \in AllLoops :
         /\ lpc[l] = "tchSend"
         /\ lpc' = [lpc EXCEPT ![l] = "wait"]
    /\ nPub' = nPub + 1
    /\ tpc' = "sleep"
    /\ UNCHANGED <<accepted, waitErr, ltags, accN, accI, fdconns, count, interest, nErrs>>
    /\ UNCHANGED <<tickOn, nFire, nTick, nSlept, shutAt, tickBy>>
    /\ UNCHANGED <<cfgVars, tickRest, mainVars, connVars, histVars>>

\* loopTicker: time.Sleep returns
TickerWake ==
    /\ tpc = "sleep"
    /\ tpc' = "fire"
    /\ nSlept' = nSlept + 1
    /\ UNCHANGED <<tickOn, nFire, nTick, nPub, shutAt, tickBy>>
    /\ UNCHANGED <<cfgVars, tickRest, mainVars, loopVars, connVars, histVars>>

\* ----------------------------------------------------- loop thread: accept
\* loopAccept: the error handed to Poll.Wait when syscall.Accept failed with err
AcceptRet(err) == IF err = "EAGAIN" THEN "nil" ELSE err

\* loopAccept, RoundRobin: the counter after the check let this loop through
AcceptedNext(n) == n + 1

\* eventHandler.OnFdEvent for the listener's fd (no entry in fdconns), and
\* loopAccept up to its first read of another loop's state
loopAcceptBegin(l) ==
    /\ lpc[l] = "wait"
    /\ ListenerReady
    /\ IF numLoops > 1 /\ balance = "LeastConnections"
       THEN /\ accN' = [accN EXCEPT ![l] = count[l]]
            /\ accI' = [accI EXCEPT ![l] = 0]
            /\ lpc' = [lpc EXCEPT ![l] = "lcScan"]
            /\ UNCHANGED accepted
       ELSE IF numLoops > 1 /\ balance = "RoundRobin"
       THEN IF accepted % numLoops # l
            THEN UNCHANGED <<accepted, lpc, accN, accI>>
            ELSE /\ accepted < MaxAccepted
                 /\ accepted' = AcceptedNext(accepted)
                 /\ lpc' = [lpc EXCEPT ![l] = "accept"]
                 /\ UNCHANGED <<accN, accI>>
       ELSE /\ lpc' = [lpc EXCEPT ![l] = "accept"]
            /\ UNCHANGED <<accepted, accN, accI>>
    /\ UNCHANGED <<waitErr, ltags, fdconns, count, interest, nErrs>>
    /\ UNCHANGED <<cfgVars, extVars, mainVars, connVars, histVars>>

\* a comparison that lets the loop with more connections accept
LcRefuseMore(l, lp) == lp # l /\ count[lp] > accN[l]

\* loopAccept, LeastConnections: loop lp has fewer connections than this loop
LcRefuse(l, lp) == lp # l /\ count[lp] < accN[l]

\* loopAccept, LeastConnections: one iteration of the range loop over s.loops
loopAcceptScan(l) ==
    /\ lpc[l] = "lcScan"
    /\ IF accI[l] = numLoops
       THEN lpc' = [lpc EXCEPT ![l] = "accept"] /\ UNCHANGED accI
       ELSE IF LcRefuse(l, accI[l])
       THEN lpc' = [lpc EXCEPT ![l] = "wait"] /\ UNCHANGED accI
       ELSE accI' = [accI EXCEPT ![l] = @ + 1] /\ UNCHANGED lpc
    /\ UNCHANGED <<accepted, waitErr, ltags, accN, fdconns, count, interest, nErrs>>
    /\ UNCHANGED <<cfgVars, extVars, mainVars, connVars, histVars>>

\* loopAccept: syscall.Accept finds the queue empty (EAGAIN): another loop took
\* the connection, or the client gave up
loopAcceptEagain(l) ==
    /\ lpc[l] = "accept"
    /\ LeaveWait(l, AcceptRet("EAGAIN"))
    /\ UNCHANGED <<accepted, ltags, accN, accI, fdconns, count, interest, nErrs>>
    /\ UNCHANGED <<cfgVars, extVars, mainVars, connVars, histVars>>

\* loopAccept: syscall.Accept fails (the process is out of fds)
loopAcceptFail(l) ==
    /\ lpc[l] = "accept"
    /\ nErrs < MaxAcceptErrs
    /\ nErrs' = nErrs + 1
    /\ LeaveWait(l, AcceptRet("EMFILE"))
    /\ UNCHANGED <<accepted, ltags, accN, accI, fdconns, count, interest>>
    /\ UNCHANGED <<cfgVars, extVars, mainVars, connVars, histVars>>

\* loopAccept: syscall.Accept succeeds and syscall.SetNonblock fails on the new
\* fd: the error is returned; the fd stays open, no conn object is made
loopAcceptNonblockFail(l) ==
    /\ lpc[l] = "accept"
    /\ Pending # {}
    /\ nErrs < MaxAcceptErrs
    /\ nErrs' = nErrs + 1
    /\ conn' = [conn EXCEPT ![Min(Pending)] = LeakedFd(FreshFd, l)]
    /\ LeaveWait(l, "EBADF")
    /\ UNCHANGED <<accepted, ltags, accN, accI, fdconns, count, interest>>
    /\ UNCHANGED nRead
    /\ UNCHANGED <<cfgVars, extVars, mainVars, histVars>>

\* loopAccept: syscall.Accept and syscall.SetNonblock succeed; the conn is made,
\* put in l.fdconns and registered with read+write interest
loopAcceptOk(l) ==
    /\ lpc[l] = "accept"
    /\ Pending # {}
    /\ LET c == Min(Pending)
           fd == FreshFd
       IN /\ conn' = [conn EXCEPT ![c] = NewConn(fd, l)]
          /\ fdconns' = [fdconns EXCEPT ![l][fd] = c]
          /\ interest' = [interest EXCEPT ![l][fd] = "rw"]
    /\ accOrder' = Append(accOrder, l)
    /\ lpc' = [lpc EXCEPT ![l] = "accInc"]
    /\ UNCHANGED <<accepted, waitErr, ltags, accN, accI, count, nErrs>>
    /\ UNCHANGED nRead
    /\ UNCHANGED <<nOpened, nClosed, nFdClosed, closedErr, closedBy, nEvents, early,
                   owed, rd, wr, greet, owedAll>>
    /\ UNCHANGED <<cfgVars, extVars, mainVars>>

\* loopAccept: atomic.AddInt32(&l.count, 1), return nil
loopAcceptInc(l) ==
    /\ lpc[l] = "accInc"
    /\ count' = [count EXCEPT ![l] = @ + 1]
    /\ lpc' = [lpc EXCEPT ![l] = "wait"]
    /\ UNCHANGED <<accepted, waitErr, ltags, accN, accI, fdconns, interest, nErrs>>
    /\ UNCHANGED <<cfgVars, extVars, mainVars, connVars, histVars>>

\* ------------------------------------------------ loop thread: connections
\* what the user's callbacks return
OpenedResults ==
    IF echo THEN {[out |-> <<11, 12>>, action |-> "None"]}
    ELSE [out : OutChoices, action : Actions]

DataResults(in) ==
    IF echo THEN {[out |-> in, action |-> "None"]}
    ELSE [out : OutChoices, action : Actions]

ClosedResults == {"None", "Shutdown"}

\* a dispatch that forgets the opened flag
DispatchNoOpened(c) ==
    IF Len(conn[c].out) # 0 THEN "write"
    ELSE IF conn[c].action # "None" THEN "action"
    ELSE "read"

\* a dispatch that applies the action before it writes c.out
DispatchActionFirst(c) ==
    IF ~conn[c].opened THEN "opened"
    ELSE IF conn[c].action # "None" THEN "action"
    ELSE IF Len(conn[c].out) # 0 THEN "write"
    ELSE "read"

\* eventHandler.OnFdEvent: the handler chosen for connection c
Dispatch(c) ==
    IF ~conn[c].opened THEN "opened"
    ELSE IF Len(conn[c].out) # 0 THEN "write"
    ELSE IF conn[c].action # "None" THEN "action"
    ELSE "read"

\* a readiness event for the fd of connection c is delivered on loop l
Ready(l, c, h) ==
    /\ lpc[l] = "wait"
    /\ conn[c].st = "live"
    /\ fdconns[l][conn[c].fd] = c
    /\ FdReady(l, c)
    /\ Dispatch(c) = h
    /\ nEvents' = [nEvents EXCEPT ![c] = 1]

\* interest after a handler that narrows to read when there is nothing to send
Narrow(l, fd, out, action) ==
    IF Len(out) = 0 /\ action = "None"
    THEN [interest EXCEPT ![l][fd] = "r"]
    ELSE interest

\* interest after loopRead
Widen(l, fd, out, action) ==
    IF Len(out) # 0 \/ action # "None"
    THEN [interest EXCEPT ![l][fd] = "rw"]
    ELSE interest

\* loopOpened: what internal.SetKeepAlive returns; it is called when Opened's
\* options hold TCPKeepAlive > 0 and the listener is a TCP listener
KeepAliveResults == IF keepAlive THEN {"nil", "EINVAL"} ELSE {"nil"}

\* loopOpened; when SetKeepAlive fails it returns the error before it narrows
\* the interest
loopOpened(l, c) ==
    /\ Ready(l, c, "opened")
    /\ \E r \in OpenedResults, ka \in KeepAliveResults :
         LET out == IF Len(r.out) > 0 THEN r.out ELSE conn[c].out
         IN /\ conn' = [conn EXCEPT ![c].opened = TRUE, ![c].out = out,
                                    ![c].action = r.action]
            /\ interest' = IF ka = "nil" THEN Narrow(l, conn[c].fd, out, r.action)
                           ELSE interest
            /\ owed' = [owed EXCEPT ![c] = IF r.action = "Close" THEN Len(out) ELSE 0]
            /\ owedAll' = [owedAll EXCEPT ![c] = IF r.action = "Close" THEN Len(out) ELSE 0]
            /\ greet' = [greet EXCEPT ![c] = IF echo THEN out ELSE @]
            /\ kaFail' = [kaFail EXCEPT ![c] = ka # "nil"]
            /\ LeaveWait(l, ka)
    /\ creuse' = [creuse EXCEPT ![c] = reuseOpt]
    /\ nOpened' = [nOpened EXCEPT ![c] = Cap2(@ + 1)]
    /\ UNCHANGED <<accepted, ltags, accN, accI, fdconns, count, nErrs>>
    /\ UNCHANGED nRead
    /\ UNCHANGED <<nClosed, nFdClosed, closedErr, closedBy, early, rd, wr, accOrder>>
    /\ UNCHANGED <<memOn, reuseOpt, packet, nData, firstSl, lastSl>>
    /\ UNCHANGED <<cfgVars, servVars, tickVars, wchVars, keepAlive, mainVars>>

\* loopWrite: syscall.Write returns EAGAIN
loopWriteEagain(l, c) ==
    /\ Ready(l, c, "write")
    /\ LeaveWait(l, "nil")
    /\ early' = [early EXCEPT ![c] = IF conn[c].opened THEN @ ELSE 1]
    /\ UNCHANGED <<accepted, ltags, accN, accI, fdconns, count, interest, nErrs>>
    /\ UNCHANGED <<nOpened, nClosed, nFdClosed, closedErr, closedBy, owed, rd, wr,
                   greet, accOrder, owedAll>>
    /\ UNCHANGED <<cfgVars, extVars, mainVars, connVars>>

\* loopWrite: syscall.Write fails with another error
loopWriteErr(l, c) ==
    /\ Ready(l, c, "write")
    /\ CloseConn(l, c, "EPIPE", "write")
    /\ \E a \in ClosedResults : LeaveWait(l, ClosedRet(a))
    /\ early' = [early EXCEPT ![c] = IF conn[c].opened THEN @ ELSE 1]
    /\ UNCHANGED <<accepted, ltags, accN, accI, nErrs>>
    /\ UNCHANGED <<nOpened, owed, rd, wr, greet, accOrder, owedAll>>
    /\ UNCHANGED <<cfgVars, extVars, mainVars>>

\* loopWrite: syscall.Write takes n bytes of c.out
loopWriteOk(l, c) ==
    /\ Ready(l, c, "write")
    /\ \E n \in 1 .. Len(conn[c].out) :
         LET out == Compact(conn[c].out, n)
         IN /\ conn' = [conn EXCEPT ![c].out = out]
            /\ interest' = Narrow(l, conn[c].fd, out, conn[c].action)
            /\ wr' = [wr EXCEPT ![c] = IF echo THEN @ \o SubSeq(conn[c].out, 1, n) ELSE @]
            /\ owed' = [owed EXCEPT ![c] = IF @ > n THEN @ - n ELSE 0]
    /\ LeaveWait(l, "nil")
    /\ early' = [early EXCEPT ![c] = IF conn[c].opened THEN @ ELSE 1]
    /\ UNCHANGED <<accepted, ltags, accN, accI, fdconns, count, nErrs>>
    /\ UNCHANGED nRead
    /\ UNCHANGED <<nOpened, nClosed, nFdClosed, closedErr, closedBy, rd, greet, accOrder, owedAll>>
    /\ UNCHANGED <<cfgVars, extVars, mainVars>>

\* loopAction: what is done for c.action: "close", "shutdown" or "clear"
ActionCase(a) ==
    IF a = "Close" THEN "close" ELSE IF a = "Shutdown" THEN "shutdown" ELSE "clear"

\* loopAction, default: the action is cleared
loopActionClear(l, c) ==
    /\ Ready(l, c, "action")
    /\ ActionCase(conn[c].action) = "clear"
    /\ conn' = [conn EXCEPT ![c].action = "None"]
    /\ interest' = Narrow(l, conn[c].fd, conn[c].out, "None")
    /\ LeaveWait(l, "nil")
    /\ UNCHANGED <<accepted, ltags, accN, accI, fdconns, count, nErrs>>
    /\ UNCHANGED nRead
    /\ UNCHANGED <<nOpened, nClosed, nFdClosed, closedErr, closedBy, early, owed, rd,
                   wr, greet, accOrder, owedAll>>
    /\ UNCHANGED <<cfgVars, extVars, mainVars>>

\* loopAction, Close: loopCloseConn(s, l, c, nil)
loopActionClose(l, c) ==
    /\ Ready(l, c, "action")
    /\ ActionCase(conn[c].action) = "close"
    /\ CloseConn(l, c, "nil", "action")
    /\ \E a \in ClosedResults : LeaveWait(l, ClosedRet(a))
    /\ UNCHANGED <<accepted, ltags, accN, accI, nErrs>>
    /\ UNCHANGED <<nOpened, early, owed, rd, wr, greet, accOrder, owedAll>>
    /\ UNCHANGED <<cfgVars, extVars, mainVars>>

\* loopAction, Shutdown: return errClosing
loopActionShutdown(l, c) ==
    /\ Ready(l, c, "action")
    /\ ActionCase(conn[c].action) = "shutdown"
    /\ LeaveWait(l, "errClosing")
    /\ UNCHANGED <<accepted, ltags, accN, accI, fdconns, count, interest, nErrs>>
    /\ UNCHANGED <<nOpened, nClosed, nFdClosed, closedErr, closedBy, early, owed, rd,
                   wr, greet, accOrder, owedAll>>
    /\ UNCHANGED <<cfgVars, extVars, mainVars, connVars>>

\* a loopRead that hands the scratch buffer to Data whatever c.reuse says
DataSliceAlias(reuse, k, in) ==
    [base |-> 0, len |-> Len(in), mem |-> <<>>, in |-> in]

\* loopRead: the slice passed to Data: l.packet[:n] itself (base 0) when c.reuse
\* is set, else the k-th fresh copy of it
DataSlice(reuse, k, in) ==
    IF reuse
    THEN [base |-> 0, len |-> Len(in), mem |-> <<>>, in |-> in]
    ELSE [base |-> k, len |-> Len(in), mem |-> in, in |-> in]

\* syscall.Read(c.fd, l.packet): the buffer after the bytes in were stored
PacketAfter(pk, in) == in \o SubSeq(pk, Len(in) + 1, Len(pk))

\* loopRead: syscall.Read returns EAGAIN
loopReadEagain(l, c) ==
    /\ Ready(l, c, "read")
    /\ LeaveWait(l, "nil")
    /\ UNCHANGED <<accepted, ltags, accN, accI, fdconns, count, interest, nErrs>>
    /\ UNCHANGED <<nOpened, nClosed, nFdClosed, closedErr, closedBy, early, owed, rd,
                   wr, greet, accOrder, owedAll>>
    /\ UNCHANGED <<cfgVars, extVars, mainVars, connVars>>

\* loopRead: syscall.Read returns no byte (the peer closed: err = nil) or an error
loopReadClose(l, c) ==
    /\ Ready(l, c, "read")
    /\ \E err \in {"nil", "ECONNRESET"} : CloseConn(l, c, err, "read")
    /\ \E a \in ClosedResults : LeaveWait(l, ClosedRet(a))
    /\ UNCHANGED <<accepted, ltags, accN, accI, nErrs>>
    /\ UNCHANGED <<nOpened, early, owed, rd, wr, greet, accOrder, owedAll>>
    /\ UNCHANGED <<cfgVars, extVars, mainVars>>

\* loopRead up to the call of Data: syscall.Read has stored the bytes in at
\* the start of l.packet, the slice for Data is l.packet[:n] or a copy of it
ReadIn(l, c, in) ==
    /\ nRead' = [nRead EXCEPT ![c] = @ + Len(in)]
    /\ rd' = [rd EXCEPT ![c] = IF echo THEN @ \o in ELSE @]
    /\ IF memOn
       THEN LET sl == DataSlice(creuse[c], nData[l] + 1, in)
            IN /\ packet' = [packet EXCEPT ![l] = PacketAfter(@, in)]
               /\ nData' = [nData EXCEPT ![l] = Cap2(@ + 1)]
               /\ lastSl' = [lastSl EXCEPT ![l] = sl]
               /\ firstSl' = [firstSl EXCEPT ![l] = IF nData[l] = 0 THEN sl ELSE @]
       ELSE UNCHANGED <<packet, nData, firstSl, lastSl>>

\* loopRead after Data returned r: the action and the bytes are recorded, the
\* interest is widened when there is something to send or to do
DataDone(l, c, r) ==
    LET out == IF Len(r.out) > 0 THEN r.out ELSE conn[c].out
    IN /\ conn' = [conn EXCEPT ![c].action = r.action, ![c].out = out]
       /\ interest' = Widen(l, conn[c].fd, out, r.action)
       /\ owed' = [owed EXCEPT ![c] = IF r.action = "Close" THEN Len(out) ELSE 0]
       /\ owedAll' = [owedAll EXCEPT ![c] = IF r.action = "Close" THEN Len(out) ELSE 0]

\* loopRead: syscall.Read returns the next n bytes of the stream, Data is
\* called and returns without a call of Connection.Write
loopReadData(l, c) ==
    /\ Ready(l, c, "read")
    /\ \E n \in 1 .. (maxBytes - nRead[c]) :
         LET in == Stream(nRead[c], n)
         IN /\ ReadIn(l, c, in)
            /\ \E r \in DataResults(in) : DataDone(l, c, r)
    /\ early' = [early EXCEPT ![c] = IF conn[c].opened THEN @ ELSE 1]
    /\ LeaveWait(l, "nil")
    /\ UNCHANGED <<accepted, ltags, accN, accI, fdconns, count, nErrs>>
    /\ UNCHANGED <<nOpened, nClosed, nFdClosed, closedErr, closedBy, wr, greet, accOrder>>
    /\ UNCHANGED <<memOn, reuseOpt, creuse>>
    /\ UNCHANGED <<cfgVars, memRest, mainVars>>

\* -------------------------------------------------------- Connection.Write
\* the bytes handed to the k-th Write call of a run
WriteData(k) == <<19 + 2 * k, 20 + 2 * k>>

\* the data of the writeEvents for connection c in channel q, oldest first
RECURSIVE WchBytes(_, _)
WchBytes(q, c) ==
    IF q = <<>> THEN <<>>
    ELSE (IF Head(q).c = c THEN Head(q).data ELSE <<>>) \o WchBytes(Tail(q), c)

SeqSet(q) == {q[i] : i \in 1 .. Len(q)}

\* the bytes not yet written for connection c of loop l: c.out, then l.wch
PendingBytes(l, c) == conn[c].out \o WchBytes(wch[l], c)

\* what the Write call number k finds pending before its own bytes
Ahead(l, c, k) ==
    IF echo THEN {<<b, WriteData(k)[1]>> : b \in SeqSet(PendingBytes(l, c))} ELSE {}

\* loopRead: syscall.Read returns the next n bytes of the stream and Data is
\* called; this Data callback calls Connection.Write before it returns
loopReadBegin(l, c) ==
    /\ Ready(l, c, "read")
    /\ nWrites < maxWrites
    /\ \E n \in 1 .. (maxBytes - nRead[c]) :
         LET in == Stream(nRead[c], n)
         IN /\ ReadIn(l, c, in)
            /\ curIn' = [curIn EXCEPT ![l] = in]
    /\ lpc' = [lpc EXCEPT ![l] = "inRead"]
    /\ cur' = [cur EXCEPT ![l] = c]
    /\ UNCHANGED <<maxWrites, nWrites, wch, ahead, stale, otherOn, xsend, lsend>>
    /\ UNCHANGED <<accepted, waitErr, ltags, accN, accI, fdconns, count, interest, nErrs>>
    /\ UNCHANGED <<nOpened, nClosed, nFdClosed, closedErr, closedBy, early, owed,
                   owedAll, wr, greet, accOrder>>
    /\ UNCHANGED <<memOn, reuseOpt, creuse>>
    /\ UNCHANGED <<cfgVars, servVars, tickVars, optVars, mainVars, conn>>

\* loopRead: the Data callback that loop l runs for connection c returns
loopReadReturn(l, c) ==
    /\ lpc[l] = "inRead"
    /\ cur[l] = c
    /\ \E r \in DataResults(curIn[l]) : DataDone(l, c, r)
    /\ LeaveWait(l, "nil")
    /\ UNCHANGED <<accepted, ltags, accN, accI, fdconns, count, nErrs>>
    /\ UNCHANGED <<nOpened, nClosed, nFdClosed, closedErr, closedBy, nEvents, early,
                   rd, wr, greet, accOrder>>
    /\ UNCHANGED <<cfgVars, extVars, mainVars, nRead>>

\* a call of c.Write: by the Data callback that runs on the thread of loop l,
\* for a connection of that loop, or by the program's other goroutine, for a
\* connection it was given by Opened, whatever has happened to it since
CanWrite(l, c) ==
    /\ nWrites < maxWrites
    /\ conn[c].opened
    /\ conn[c].loop = l
    /\ \/ lpc[l] = "inRead" /\ conn[c].st = "live"
       \/ otherOn /\ xsend.at = "idle"

\* the socket of client d is open in the process under the number fd: d is
\* served as a connection, or its accept failed in syscall.SetNonblock and
\* left the fd open
HoldsFd(d, fd) == conn[d].st \in {"live", "leaked"} /\ conn[d].fd = fd

\* the client whose socket the fd number kept in c names now: c itself while
\* it is open, afterwards the client whose accept was given that number
\* (NoConn: the number names no socket, syscall.Write fails)
FdOwner(c) ==
    IF conn[c].st = "live" THEN c
    ELSE IF \E d \in ConnIds : HoldsFd(d, conn[c].fd)
         THEN CHOOSE d \in ConnIds : HoldsFd(d, conn[c].fd)
         ELSE NoConn

\* the bytes bs are written to the socket that c.fd names
WrAfter(c, bs) == IF echo /\ FdOwner(c) # NoConn THEN [wr EXCEPT ![FdOwner(c)] = @ \o bs] ELSE wr

\* conn.Write: syscall.Write takes all of data (Write returns nil) or fails
\* with an error other than EAGAIN (Write returns it)
connWriteDone(l, c) ==
    /\ CanWrite(l, c)
    /\ nWrites' = nWrites + 1
    /\ \E ok \in BOOLEAN :
         /\ ok => FdOwner(c) # NoConn
         /\ wr' = IF ok THEN WrAfter(c, WriteData(nWrites + 1)) ELSE wr
    /\ ahead' = [ahead EXCEPT ![c] = @ \cup Ahead(l, c, nWrites + 1)]
    /\ UNCHANGED <<maxWrites, wch, cur, stale, curIn, otherOn, xsend, lsend>>
    /\ UNCHANGED <<nOpened, nClosed, nFdClosed, closedErr, closedBy, nEvents, early,
                   owed, owedAll, rd, greet, accOrder>>
    /\ UNCHANGED <<cfgVars, wchRest, mainVars, loopVars, connVars>>

\* willWrite: c.loop.wch <- writeEvent{c, data}
WchPut(q, ev) == Append(q, ev)

\* conn.Write: syscall.Write returns EAGAIN (n = 0) or takes the first n bytes
\* only; the caller enters willWrite with the rest, about to send it on l.wch
connWriteWill(l, c) ==
    /\ CanWrite(l, c)
    /\ FdOwner(c) # NoConn
    /\ nWrites' = nWrites + 1
    /\ \E n \in 0 .. (Len(WriteData(nWrites + 1)) - 1) :
         LET data == WriteData(nWrites + 1)
             rest == SubSeq(data, n + 1, Len(data))
         IN /\ wr' = WrAfter(c, SubSeq(data, 1, n))
            /\ \/ /\ lpc[l] = "inRead" /\ conn[c].st = "live"
                  /\ lpc' = [lpc EXCEPT ![l] = "wchSend"]
                  /\ lsend' = [lsend EXCEPT ![l] = [c |-> c, data |-> rest]]
                  /\ UNCHANGED xsend
               \/ /\ otherOn /\ xsend.at = "idle"
                  /\ xsend' = [l |-> l, c |-> c, data |-> rest, at |-> "send"]
                  /\ UNCHANGED <<lpc, lsend>>
    /\ ahead' = [ahead EXCEPT ![c] = @ \cup Ahead(l, c, nWrites + 1)]
    /\ UNCHANGED <<maxWrites, wch, cur, stale, curIn, otherOn>>
    /\ UNCHANGED <<accepted, waitErr, ltags, accN, accI, fdconns, count, interest, nErrs>>
    /\ UNCHANGED <<nOpened, nClosed, nFdClosed, closedErr, closedBy, nEvents, early,
                   owed, owedAll, rd, greet, accOrder>>
    /\ UNCHANGED <<cfgVars, wchRest, mainVars, connVars>>

\* willWrite on the thread of loop l: c.loop.wch <- writeEvent{c, data} when
\* l.wch has room. When it is full the send blocks this thread, the only one
\* that receives from l.wch: there is no step out of it
willWriteSend(l) ==
    /\ lpc[l] = "wchSend"
    /\ Len(wch[l]) < MaxWch
    /\ wch' = [wch EXCEPT ![l] = WchPut(@, lsend[l])]
    /\ lsend' = [lsend EXCEPT ![l] = NoWrite]
    /\ lpc' = [lpc EXCEPT ![l] = "wchFire"]
    /\ UNCHANGED <<maxWrites, nWrites, cur, ahead, stale, curIn, otherOn, xsend>>
    /\ UNCHANGED <<accepted, waitErr, ltags, accN, accI, fdconns, count, interest, nErrs>>
    /\ UNCHANGED <<cfgVars, wchRest, mainVars, connVars, histVars>>

\* willWrite on the thread of loop l: c.loop.poll.FireEvent(EventWrite); Write
\* returns to the Data callback
willWriteFire(l) ==
    /\ lpc[l] = "wchFire"
    /\ ltags' = [ltags EXCEPT ![l] = @ \cup {"Write"}]
    /\ lpc' = [lpc EXCEPT ![l] = "inRead"]
    /\ UNCHANGED <<accepted, waitErr, accN, accI, fdconns, count, interest, nErrs>>
    /\ UNCHANGED <<cfgVars, extVars, mainVars, connVars, histVars>>

\* willWrite in the other goroutine: the send on l.wch goes through when there
\* is room, else the goroutine is parked in it
otherSend ==
    /\ xsend.at = "send"
    /\ IF Len(wch[xsend.l]) < MaxWch
       THEN /\ wch' = [wch EXCEPT ![xsend.l] =
                         WchPut(@, [c |-> xsend.c, data |-> xsend.data])]
            /\ xsend' = [xsend EXCEPT !.c = NoConn, !.data = <<>>, !.at = "fire"]
       ELSE /\ xsend' = [xsend EXCEPT !.at = "parked"]
            /\ UNCHANGED wch
    /\ UNCHANGED <<maxWrites, nWrites, cur, ahead, stale, curIn, otherOn, lsend>>
    /\ UNCHANGED <<cfgVars, wchRest, mainVars, loopVars, connVars, histVars>>

\* willWrite in the other goroutine: c.loop.poll.FireEvent(EventWrite)
otherFire ==
    /\ xsend.at = "fire"
    /\ ltags' = [ltags EXCEPT ![xsend.l] = @ \cup {"Write"}]
    /\ xsend' = NoEvent
    /\ UNCHANGED <<maxWrites, nWrites, wch, cur, ahead, stale, curIn, otherOn, lsend>>
    /\ UNCHANGED <<accepted, lpc, waitErr, accN, accI, fdconns, count, interest, nErrs>>
    /\ UNCHANGED <<cfgVars, wchRest, mainVars, connVars, histVars>>

\* <-h.l.wch: the channel after its head was received; the event of a sender
\* parked in its send takes the place that became free
WchTake(l) ==
    IF xsend.at = "parked" /\ xsend.l = l
    THEN WchPut(Tail(wch[l]), [c |-> xsend.c, data |-> xsend.data])
    ELSE Tail(wch[l])

\* the other goroutine after a receive from l.wch: a parked send is complete
SenderAfterTake(l) ==
    IF xsend.at = "parked" /\ xsend.l = l
    THEN [xsend EXCEPT !.c = NoConn, !.data = <<>>, !.at = "fire"]
    ELSE xsend

\* eventHandler.OnEvent(EventWrite): one writeEvent is taken from l.wch if there
\* is one, its data appended to its conn's out, its fd set to read+write
OnEventWrite(l) ==
    /\ lpc[l] = "wait"
    /\ "Write" \in ltags[l]
    /\ ltags' = [ltags EXCEPT ![l] = @ \ {"Write"}]
    /\ IF wch[l] # <<>>
       THEN LET ev == Head(wch[l])
                fd == conn[ev.c].fd
                live == conn[ev.c].st = "live"
            IN /\ wch' = [wch EXCEPT ![l] = WchTake(l)]
               /\ xsend' = SenderAfterTake(l)
               /\ conn' = IF live THEN [conn EXCEPT ![ev.c].out = @ \o ev.data] ELSE conn
               /\ interest' = IF interest[l][fd] # "none"
                               THEN [interest EXCEPT ![l][fd] = "rw"]
                               ELSE interest
               /\ stale' = IF ~live /\ fdconns[l][fd] # NoConn
                            THEN [stale EXCEPT ![fdconns[l][fd]] = TRUE]
                            ELSE stale
       ELSE UNCHANGED <<wch, conn, interest, stale, xsend>>
    /\ UNCHANGED <<maxWrites, nWrites, cur, ahead, curIn, otherOn, lsend>>
    /\ UNCHANGED <<accepted, lpc, waitErr, accN, accI, fdconns, count, nErrs>>
    /\ UNCHANGED nRead
    /\ UNCHANGED <<cfgVars, wchRest, mainVars, histVars>>

\* ------------------------------------------------------------ specifications
MainStep ==
    \/ MainServing \/ MainStart \/ MainWait \/ MainFire \/ MainWgWait
    \/ \E c \in ConnIds : MainSweepConn(c)
    \/ MainSweepNext \/ MainDone

AcceptStep(l) ==
    loopAcceptBegin(l) \/ loopAcceptEagain(l) \/ loopAcceptOk(l) \/ loopAcceptInc(l)

ExitStep(l) == OnEventClose(l) \/ LoopSignal(l) \/ LoopWgDone(l)

IoStep(l) ==
    \E c \in ConnIds :
       \/ loopOpened(l, c)
       \/ loopWriteEagain(l, c) \/ loopWriteErr(l, c) \/ loopWriteOk(l, c)
       \/ loopReadEagain(l, c) \/ loopReadClose(l, c) \/ loopReadData(l, c)

ActionStep(l) ==
    \E c \in ConnIds :
       loopActionClear(l, c) \/ loopActionClose(l, c) \/ loopActionShutdown(l, c)

FaultStep(l) == loopAcceptFail(l) \/ loopAcceptNonblockFail(l) \/ PollFail(l)

\* the server with every callback free to return any bytes and any action,
\* under the Random policy, with failing accepts and failing waits
Next ==
    \/ MainStep
    \/ \E l \in AllLoops :
         AcceptStep(l) \/ IoStep(l) \/ ActionStep(l) \/ ExitStep(l) \/ FaultStep(l)

Init == \E n \in 1 .. MaxLoops : InitWith(n, "Random", FALSE, MaxConns, MaxBytes)

Spec == Init /\ [][Next]_vars

\* the same server without faults, every thread scheduled fairly: the main
\* thread and each loop thread keep running while they have a step to take
NextFair ==
    \/ MainStep
    \/ \E l \in AllLoops : AcceptStep(l) \/ IoStep(l) \/ ActionStep(l) \/ ExitStep(l)

InitFair == InitWith(MaxLoops, "Random", FALSE, FairConns, MaxBytes)

FairSpec ==
    /\ InitFair
    /\ [][NextFair]_vars
    /\ WF_vars(MainStep)
    /\ \A l \in AllLoops :
         WF_vars(AcceptStep(l) \/ IoStep(l) \/ ActionStep(l) \/ ExitStep(l))

\* the echo server of testServe on one loop (NumLoops = 0): Opened returns a
\* greeting, Data returns its input, no callback returns an action but Closed;
\* the single loop has left its wait when the Close event is fired at it
NextEcho ==
    \/ MainStep
    \/ \E l \in AllLoops : AcceptStep(l) \/ IoStep(l) \/ LoopSignal(l) \/ LoopWgDone(l)

InitEcho == InitWith(0, "Random", TRUE, EchoConns, EchoBytes)

SpecEcho == InitEcho /\ [][NextEcho]_vars

\* the accepts of a server with several loops under RoundRobin and under
\* LeastConnections, no connection being closed
NextBalance ==
    \/ MainServing \/ MainStart \/ MainWait
    \/ \E l \in AllLoops : AcceptStep(l) \/ loopAcceptScan(l)

InitBalance ==
    \E b \in {"RoundRobin", "LeastConnections"} :
       InitWith(MaxLoops, b, FALSE, BalConns, MaxBytes)

SpecBalance == InitBalance /\ [][NextBalance]_vars

\* the server with a Tick callback (testTick), a client and no faults
TickerStep == TickerFire \/ TickerFireFail \/ TickerRecv \/ TickerWake

NextTick ==
    \/ MainStep
    \/ TickerStep
    \/ \E l \in AllLoops :
         AcceptStep(l) \/ IoStep(l) \/ ActionStep(l) \/ ExitStep(l) \/ OnEventTick(l)

InitTicker ==
    /\ InitBase(MaxLoops, "Random", FALSE, TickConns, MaxBytes)
    /\ InitMem(FALSE, FALSE)
    /\ InitTick(TRUE)
    /\ InitWch(0, FALSE)
    /\ InitOpt(FALSE)

SpecTick == InitTicker /\ [][NextTick]_vars

\* the server with a Tick callback, every thread scheduled fairly: the main
\* thread, the ticker thread and each loop thread take a step when they can
FairTickSpec ==
    /\ InitTicker
    /\ [][NextTick]_vars
    /\ WF_vars(MainStep)
    /\ WF_vars(TickerStep)
    /\ \A l \in AllLoops :
         WF_vars(AcceptStep(l) \/ IoStep(l) \/ ActionStep(l) \/ ExitStep(l) \/ OnEventTick(l))

\* Connection.Write calls that find room in l.wch, and the Write event
WriteStep(l) ==
    \/ OnEventWrite(l)
    \/ \E c \in ConnIds :
          \/ loopReadBegin(l, c) \/ loopReadReturn(l, c)
          \/ connWriteDone(l, c) \/ connWriteWill(l, c)
    \/ willWriteSend(l) \/ willWriteFire(l)

\* willWrite in the program's other goroutine
OtherStep == otherSend \/ otherFire

\* a server on one loop whose callbacks, free to return any bytes and any
\* action, call Connection.Write on the loop's thread often enough to fill l.wch
LoopWriteStep(l) ==
    \/ AcceptStep(l) \/ IoStep(l) \/ ActionStep(l) \/ WriteStep(l)
    \/ LoopSignal(l) \/ LoopWgDone(l)

\* the server whose Data callbacks call Connection.Write
NextLoopWrite == MainStep \/ \E l \in AllLoops : LoopWriteStep(l)

\* the same server; the program may have a goroutine of its own that calls
\* Connection.Write as well
NextWrite == NextLoopWrite \/ OtherStep

InitWrite ==
    /\ InitBase(1, "Random", FALSE, WriteConns, WriteBytes)
    /\ InitMem(FALSE, FALSE)
    /\ InitTick(FALSE)
    /\ \E o \in BOOLEAN : InitWch(MaxWrites, o)
    /\ InitOpt(FALSE)

SpecWrite == InitWrite /\ [][NextWrite]_vars

\* the server in which only Data callbacks call Connection.Write
InitLoopWrite == InitWrite /\ ~otherOn

\* the steps a loop thread takes when it is scheduled, whatever the clients
\* do: all but the reads and writes that fail or find the peer gone
LoopProgress(l) ==
    \/ AcceptStep(l) \/ ActionStep(l) \/ WriteStep(l)
    \/ (\E c \in ConnIds :
           loopOpened(l, c) \/ loopWriteOk(l, c) \/ loopReadData(l, c))
    \/ LoopSignal(l) \/ LoopWgDone(l)

\* the same server, every thread scheduled fairly; Poll.Wait delivers a pending
\* Write tag at the next wake of its loop
FairWriteSpec ==
    /\ InitLoopWrite
    /\ [][NextLoopWrite]_vars
    /\ WF_vars(MainStep)
    /\ \A l \in AllLoops : WF_vars(LoopProgress(l)) /\ SF_vars(OnEventWrite(l))

\* the echo server on one loop whose callbacks call Connection.Write; its one
\* connection is closed when the loop leaves its wait: the sweep finds none
NextOrder ==
    \/ MainServing \/ MainStart \/ MainWait \/ MainFire \/ MainWgWait
    \/ MainSweepNext \/ MainDone
    \/ \E l \in AllLoops :
         AcceptStep(l) \/ IoStep(l) \/ WriteStep(l) \/ LoopSignal(l) \/ LoopWgDone(l)

InitOrder ==
    /\ InitBase(1, "Random", TRUE, WriteConns, WriteBytes)
    /\ InitMem(FALSE, FALSE)
    /\ InitTick(FALSE)
    /\ InitWch(OrderWrites, FALSE)
    /\ InitOpt(FALSE)

SpecOrder == InitOrder /\ [][NextOrder]_vars

\* a server on one loop that serves one connection after another on the same
\* fd number while its Data callbacks call Connection.Write; Opened asks for
\* TCP keep-alive
NextStale ==
    \/ MainStep
    \/ \E l \in AllLoops :
         \/ AcceptStep(l) \/ IoStep(l) \/ ActionStep(l) \/ WriteStep(l)
         \/ LoopSignal(l) \/ LoopWgDone(l)

InitStale ==
    /\ InitBase(1, "Random", FALSE, StaleConns, MaxBytes)
    /\ InitMem(FALSE, FALSE)
    /\ InitTick(FALSE)
    /\ InitWch(StaleWrites, FALSE)
    /\ InitOpt(TRUE)

SpecStale == InitStale /\ [][NextStale]_vars

\* the same server without keep-alive, with a goroutine of its own that calls
\* Connection.Write for the connections it was given by Opened (the example
\* program), also after they were closed
NextOther == NextStale \/ OtherStep

InitOther ==
    /\ InitBase(1, "Random", FALSE, StaleConns, MaxBytes)
    /\ InitMem(FALSE, FALSE)
    /\ InitTick(FALSE)
    /\ InitWch(StaleWrites, TRUE)
    /\ InitOpt(FALSE)

SpecOther == InitOther /\ [][NextOther]_vars

\* the echo server on one loop with the option ReuseInputBuffer of the run
\* returned by Opened (TestReuseInputBuffer); the caller keeps the slice of
\* the first Data call
InitReuse ==
    \E r \in BOOLEAN :
       /\ InitBase(1, "Random", TRUE, ReuseConns, ReuseBytes)
       /\ InitMem(TRUE, r)
       /\ InitTick(FALSE)
       /\ InitWch(0, FALSE)
       /\ InitOpt(FALSE)

SpecReuse == InitReuse /\ [][NextEcho]_vars

\* --------------------------------------------------------------------- sums
RECURSIVE SumTo(_, _)
SumTo(f, n) == IF n = 0 THEN 0 ELSE f[n] + SumTo(f, n - 1)

Accepted(c) == conn[c].st \in {"live", "closed"}
TotalAccepted == Cardinality({c \in ConnIds : Accepted(c)})
TotalOpened == SumTo(nOpened, NumClients)
TotalClosed == SumTo(nClosed, NumClients)

\* ------------------------------------------------------------------- claims
\* C1: Closed is invoked at most once for a connection and its fd is closed at
\* most once; when serve has returned, every accepted connection has had its
\* Closed callback, its fd is closed, and every loop's fdconns is empty.
C1_ClosedOnce ==
    /\ \A c \in ConnIds : nClosed[c] <= 1 /\ nFdClosed[c] <= 1
    /\ mainpc = "done" =>
         /\ \A c \in ConnIds :
              Accepted(c) => nClosed[c] = 1 /\ nFdClosed[c] = 1 /\ conn[c].st = "closed"
         /\ \A l \in AllLoops : \A fd \in Fds : fdconns[l][fd] = NoConn

\* serve has returned; one connection was closed by the sweep, another earlier
C1_Witness ==
    /\ mainpc = "done"
    /\ \E c, d \in ConnIds : closedBy[c] = "sweep" /\ closedBy[d] \in {"read", "write", "action"}

\* C2: Opened runs at most once for a connection, it has run as soon as one
\* readiness event was delivered for the connection's fd (and not before), and
\* no Data callback and no write of c.out is made before it.
C2_OpenedFirst ==
    \A c \in ConnIds :
       /\ nOpened[c] <= 1
       /\ early[c] = 0
       /\ (nEvents[c] = 1) <=> (nOpened[c] = 1)

\* a connection whose Data callback has run and whose reply is half written
C2_Witness ==
    \E c \in ConnIds :
       conn[c].st = "live" /\ nOpened[c] = 1 /\ nRead[c] >= 1 /\ Len(conn[c].out) = 1

\* C3 as stated: when serve has returned, the Opened callbacks, the Closed
\* callbacks and the accepted connections are equally many.
C3_Original ==
    mainpc = "done" => TotalOpened = TotalClosed /\ TotalClosed = TotalAccepted

\* C3 as amended: when serve has returned, the Closed callbacks are as many as
\* the accepted connections, and the Opened callbacks as many as the accepted
\* connections that got a readiness event before they were closed.
C3_Amended ==
    mainpc = "done" =>
       /\ TotalClosed = TotalAccepted
       /\ TotalOpened = Cardinality({c \in ConnIds : Accepted(c) /\ nEvents[c] = 1})
       /\ TotalOpened <= TotalClosed

\* serve has returned; one connection was opened, another was swept unopened
C3_Witness == mainpc = "done" /\ TotalOpened = 1 /\ TotalClosed = 2

\* C8 as stated: a connection not closed by a failing write has no byte left
\* of those returned together with the Close action.
C8_Original ==
    \A c \in ConnIds : closedBy[c] \in {"action", "read", "sweep"} => owed[c] = 0

\* C8 as amended: a connection closed by its Close action has no byte left of
\* those returned together with the action, and Closed gets a nil error; bytes
\* are left only after a failing write or when the shutdown sweep came first.
C8_Amended ==
    \A c \in ConnIds :
       /\ closedBy[c] \in {"action", "read"} => owed[c] = 0
       /\ closedBy[c] = "action" => closedErr[c] = "nil"
       /\ owed[c] > 0 /\ closedBy[c] # "none" => closedBy[c] \in {"write", "sweep"}

\* a connection closed by the Close action that came with two bytes
C8_Witness == \E c \in ConnIds : closedBy[c] = "action" /\ owedAll[c] = 2

\* C9 as stated: when loopAccept fails with an error other than EAGAIN, in
\* syscall.Accept or in syscall.SetNonblock, only that accept is abandoned: the
\* loop keeps waiting for events with nothing returned by its Poll.Wait, no
\* connection is closed and no shutdown is signaled.
C9_Original ==
    [][\A l \in AllLoops :
         loopAcceptFail(l) \/ loopAcceptNonblockFail(l) =>
            /\ lpc'[l] = "wait" /\ waitErr'[l] = "none"
            /\ nClosed' = nClosed /\ sigCount' = sigCount]_vars

\* C10 as stated: when a loop's Poll.Wait returned a fatal error, serve returns
\* an error.
C10_Original ==
    mainpc = "done" /\ (\E l \in Loops : waitErr[l] = "fatal") => serveRet = "err"

\* C4 as stated: once a handler has returned the closing sentinel on a loop,
\* serve eventually returns nil.
C4_Original ==
    (\E l \in Loops : waitErr[l] = "errClosing") ~> (mainpc = "done" /\ serveRet = "nil")

\* C5: what the echo server has written to a connection's fd is the greeting
\* returned by Opened followed by a prefix of what it has read from that fd.
C5_EchoPrefix ==
    \A c \in ConnIds :
       IF Len(wr[c]) <= Len(greet[c])
       THEN IsPrefix(wr[c], greet[c])
       ELSE /\ IsPrefix(greet[c], wr[c])
            /\ IsPrefix(SubSeq(wr[c], Len(greet[c]) + 1, Len(wr[c])), rd[c])

\* the greeting and three bytes read in two reads were echoed, the last
\* of them by a write of its own
C5_Witness ==
    \E c \in ConnIds :
       /\ wr[c] = <<11, 12, 1, 2, 3>>
       /\ rd[c] = <<1, 2, 3>>

\* no loop is inside loopAccept
AcceptsDone == \A l \in Loops : lpc[l] \notin {"lcScan", "accept", "accInc"}

\* C6 as stated: under RoundRobin the counter equals the number of accepted
\* connections and the k-th accepted connection (from 0) is owned by loop k mod N.
C6_Original ==
    balance = "RoundRobin" /\ AcceptsDone =>
       /\ accepted = Len(accOrder)
       /\ \A k \in 1 .. Len(accOrder) : accOrder[k] = (k - 1) % numLoops

\* C7: under LeastConnections, no connection being closed, the connection
\* counts of two loops never differ by more than one, nor do the sizes of
\* their fdconns.
C7_LeastConnections ==
    balance = "LeastConnections" /\ (\A c \in ConnIds : nClosed[c] = 0) =>
       \A l1, l2 \in Loops :
          /\ count[l1] - count[l2] <= 1
          /\ Cardinality({fd \in Fds : fdconns[l1][fd] # NoConn})
               - Cardinality({fd \in Fds : fdconns[l2][fd] # NoConn}) <= 1

\* three connections were accepted under LeastConnections, two by one loop
C7_Witness ==
    /\ balance = "LeastConnections"
    /\ AcceptsDone
    /\ \E l \in Loops : count[l] = 2
    /\ \A l \in Loops : count[l] >= 1

\* C11: Serving is called once, while no loop exists and before any other
\* callback; when it returned Shutdown, serve has returned nil, no loop was
\* started, nothing waited on or signaled the condition, no callback ran.
C11_ServingFirst ==
    /\ nServing <= 1
    /\ (nServing = 0) <=> (mainpc = "serving")
    /\ nServing = 0 \/ servAct = "Shutdown" =>
         /\ \A l \in AllLoops : lpc[l] = "off" /\ waitErr[l] = "none"
         /\ wg = 0 /\ sigCount = 0
         /\ TotalAccepted = 0 /\ TotalOpened = 0 /\ TotalClosed = 0
         /\ \A c \in ConnIds : nEvents[c] = 0
    /\ servAct = "Shutdown" => mainpc = "done" /\ serveRet = "nil"

\* Serving returned Shutdown and serve has returned
C11_Witness == servAct = "Shutdown" /\ nServing = 1 /\ mainpc = "done"

\* the bytes now in the memory of slice sl of loop l
Contents(l, sl) == IF sl.base = 0 THEN SubSeq(packet[l], 1, sl.len) ELSE sl.mem

\* the slices s and t of l.packet, both starting at its first byte, hold the
\* same bytes as far as both reach
Agree(s, t) == \A i \in 1 .. Min({Len(s), Len(t)}) : s[i] = t[i]

\* the comparison of TestReuseInputBuffer, string(in) == string(prev), for
\* the slice prev kept from the first Data call of loop l and the latest in
Reused(l) == lastSl[l].in = Contents(l, firstSl[l])

\* C12: without ReuseInputBuffer the slice of a loop's first Data call is a copy
\* of its own: it keeps its bytes and the slice of a later call is other
\* memory; with ReuseInputBuffer both slices start at the start of l.packet
\* and the kept slice shows the bytes of the latest read.
C12_InputBuffer ==
    \A l \in AllLoops :
       nData[l] >= 1 =>
          IF reuseOpt
          THEN /\ firstSl[l].base = 0
               /\ lastSl[l].base = firstSl[l].base
               /\ Agree(Contents(l, firstSl[l]), lastSl[l].in)
          ELSE /\ firstSl[l].base # 0
               /\ Contents(l, firstSl[l]) = firstSl[l].in
               /\ nData[l] = 2 => lastSl[l].base # firstSl[l].base

\* with ReuseInputBuffer, a second Data call got other bytes than the first
\* and the slice kept from the first call now shows them
C12_Witness ==
    /\ reuseOpt
    /\ nData[0] = 2
    /\ firstSl[0].in # lastSl[0].in
    /\ Reused(0)

\* C14 as stated: the condition is signaled at most once in a run.
C14_Original == sigCount <= 1

\* C14 as amended: every loop signals the condition once, when its Wait has
\* returned; a run that started its loops and returned has signaled it once
\* per loop, and at most one signal found the main thread waiting.
C14_Amended ==
    /\ sigCount = Cardinality({l \in Loops : lpc[l] \in {"sigdone", "exited"}})
    /\ sigCount - sigLost <= 1
    /\ mainpc = "done" /\ servAct = "None" => sigCount = numLoops

\* serve has returned after both of its loops signaled the condition
C14_Witness == mainpc = "done" /\ numLoops = 2 /\ sigCount = 2 /\ sigLost = 1

\* the entries of l.fdconns
MapSize(l) == Cardinality({fd \in Fds : fdconns[l][fd] # NoConn})

\* connection c is in the fdconns of a loop
InMap(c) == \E l \in AllLoops : \E fd \in Fds : fdconns[l][fd] = c

\* C16: between handlers and between the steps of the sweep a loop's count is
\* the size of its fdconns, and a connection is in a map exactly when it was
\* accepted, its fd is not closed and Closed has not run for it.
C16_CountIsMapSize ==
    /\ \A l \in AllLoops : lpc[l] # "accInc" => count[l] = MapSize(l)
    /\ \A c \in ConnIds :
         /\ InMap(c) <=> (Accepted(c) /\ nFdClosed[c] = 0 /\ nClosed[c] = 0)
         /\ InMap(c) <=> conn[c].st = "live"
         /\ nFdClosed[c] = nClosed[c]

\* the sweep has closed one connection, another is still in its loop's map
C16_Witness ==
    /\ mainpc = "sweep"
    /\ \E c, d \in ConnIds : closedBy[c] = "sweep" /\ InMap(d) /\ count[conn[d].loop] = 1

\* C17: a read or write that returns EAGAIN leaves the connections, the maps,
\* the counters, the interests and the callback counts as they are and the
\* loop waiting; a read of no byte, a failing read and a failing write close
\* that connection, hand the error to Closed, leave every other connection
\* alone, and the loop leaves its wait only with the closing sentinel.
C17_IoErrors ==
    [][\A l \in AllLoops : \A c \in ConnIds :
         /\ loopReadEagain(l, c) \/ loopWriteEagain(l, c) =>
               /\ conn' = conn /\ interest' = interest
               /\ fdconns' = fdconns /\ count' = count
               /\ nOpened' = nOpened /\ nClosed' = nClosed
               /\ lpc'[l] = "wait"
         /\ loopReadClose(l, c) \/ loopWriteErr(l, c) =>
               /\ conn'[c].st = "closed" /\ nClosed'[c] = nClosed[c] + 1
               /\ ~InMap(c)' /\ count'[l] = count[l] - 1
               /\ loopWriteErr(l, c) => closedErr'[c] = "EPIPE"
               /\ loopReadClose(l, c) => closedErr'[c] \in {"nil", "ECONNRESET"}
               /\ \A d \in ConnIds \ {c} :
                     /\ conn'[d] = conn[d] /\ nClosed'[d] = nClosed[d]
                     /\ InMap(d)' = InMap(d)
               /\ nOpened' = nOpened
               /\ \A k \in AllLoops \ {l} : lpc'[k] = lpc[k] /\ count'[k] = count[k]
               /\ lpc'[l] \in {"wait", "defer"}
               /\ lpc'[l] = "defer" => waitErr'[l] = "errClosing"]_vars

\* a read failed on one connection and Closed got the error; another
\* connection is open on the same loop, which still waits
C17_Witness ==
    \E c, d \in ConnIds :
       /\ closedBy[c] = "read" /\ closedErr[c] = "ECONNRESET"
       /\ conn[d].st = "live" /\ conn[d].opened /\ conn[d].loop = conn[c].loop
       /\ lpc[conn[c].loop] = "wait"

\* C18: Tick is invoked by loop 0 only; the ticker has raised at most one Tick
\* event more than it has slept, has slept only for delays it received, and
\* loop 0 has published a delay for every Tick but the one it is handling or
\* the one that returned Shutdown; after that one no delay is published, no
\* Tick is invoked and loop 0 has left its wait with the closing sentinel.
C18_TickOneAtATime ==
    /\ tickBy \subseteq {0}
    /\ nTick <= nFire /\ nFire <= nSlept + 1
    /\ nSlept <= nPub /\ nPub <= nTick /\ nTick <= nPub + 1
    /\ nPub < nTick => lpc[0] = "tchSend" \/ shutAt = nTick
    /\ shutAt # 0 =>
         /\ nTick = shutAt /\ nPub = shutAt - 1
         /\ "Tick" \notin ltags[0]
         /\ lpc[0] \in {"defer", "sigdone", "exited"}
         /\ waitErr[0] = "errClosing"

\* the third Tick returned Shutdown after two delays were published and slept
C18_Witness ==
    /\ shutAt = 3 /\ nPub = 2 /\ nSlept = 2 /\ tpc = "recv"
    /\ lpc[0] = "exited"

\* the thread of loop l is in the send of willWrite and l.wch is full: only
\* this thread receives from l.wch, so it stays there
SendBlocked(l) == lpc[l] = "wchSend" /\ Len(wch[l]) = MaxWch

\* C13 as stated: no loop thread is ever suspended in a send on its own
\* pending-writes channel.
C13_Original == \A l \in AllLoops : ~SendBlocked(l)

\* connection c has nothing to send and no action to take
Idle(c) == Len(conn[c].out) = 0 /\ conn[c].action = "None"

\* connection c is in the fdconns of loop l
Owns(l, c) == conn[c].st = "live" /\ fdconns[l][conn[c].fd] = c

\* C15 as stated, for the connections whose Opened has run (a connection is
\* registered with read+write interest until then, so that its first event
\* drives Opened): a connection in a loop's map has read interest when its out
\* is empty and its action None, read+write interest otherwise.
C15_Original ==
    \A l \in AllLoops : \A c \in ConnIds :
       Owns(l, c) /\ conn[c].opened =>
          interest[l][conn[c].fd] = (IF Idle(c) THEN "r" ELSE "rw")

\* the loop of l.wch has left its wait for good, or is suspended in a send
Stopped(l) == lpc[l] \in {"defer", "sigdone", "exited"} \/ SendBlocked(l)

\* every writeEvent left in l.wch is for a connection that has been closed
AllDead(l) == \A i \in 1 .. Len(wch[l]) : conn[wch[l][i].c].st = "closed"

\* C19 as stated: while its loop keeps running, the writeEvents posted to
\* l.wch for connections that stay open are eventually taken out of it.
C19_Original ==
    \A l \in AllLoops : (wch[l] # <<>>) ~> (wch[l] = <<>> \/ AllDead(l) \/ Stopped(l))

\* the place of byte b in sequence q (0: not in it)
Pos(q, b) == IF b \in SeqSet(q) THEN CHOOSE i \in 1 .. Len(q) : q[i] = b ELSE 0

\* C20 as stated: the first byte of a Write call is written to the fd only
\* after every byte that was pending for the connection when Write was called.
C20_Original ==
    \A c \in ConnIds : \A pw \in ahead[c] :
       Pos(wr[c], pw[2]) # 0 =>
          Pos(wr[c], pw[1]) # 0 /\ Pos(wr[c], pw[1]) < Pos(wr[c], pw[2])

\* the writeEvent at the head of l.wch was posted for a connection that has
\* been closed since
HeadDead(l) == wch[l] # <<>> /\ conn[Head(wch[l]).c].st = "closed"

\* C21 as stated: a Write event that takes out of l.wch a writeEvent of a
\* closed connection leaves the out and the registered interest of every
\* connection in the loop's map as they were, also of the connection that was
\* accepted later with the fd number of the closed one.
C21_Original ==
    [][\A l \in AllLoops :
         OnEventWrite(l) /\ HeadDead(l) =>
            \A c \in ConnIds :
               Owns(l, c) =>
                  /\ conn'[c].out = conn[c].out
                  /\ interest'[l][conn[c].fd] = interest[l][conn[c].fd]]_vars

\* the ticker thread was never started or has returned from loopTicker
TickerGone == tpc \in {"off", "exited"}

\* C22 as stated: once serve has returned, the ticker thread, if it was
\* started, eventually leaves loopTicker; it does not stay in its receive from
\* s.tch for ever.
C22_Original == (mainpc = "done") ~> TickerGone
============================================================================
